---- MODULE Spec2Model ----
(***************************************************************************)
(* Model of the colour crate (src/main.rs): the RGB value type with its    *)
(* hex parsing and formatting, its f64 scaling, its u8 addition and its    *)
(* blend, and the Gradient built from it and rendered to an image buffer.  *)
(*                                                                         *)
(* f64 values are modelled bit-exactly for the finite, normal range: a     *)
(* value is sign * sig * 2^exp with sig a 53-bit significand held as a     *)
(* little-endian sequence of 13-bit limbs, and every f64 operation is the  *)
(* exact result rounded to nearest, ties to even.  NaN, infinities and     *)
(* subnormals do not arise from the inputs enumerated below.               *)
(***************************************************************************)
EXTENDS Integers, Sequences, FiniteSets, TLC

(***************************************************************************)
(* Bounds of the model.                                                    *)
(***************************************************************************)
MaxSteps == 10
MaxLen == 8

(***************************************************************************)
(* Unbounded naturals: little-endian limbs in base 2^13, no high zero limb,*)
(* zero is the empty sequence.                                             *)
(***************************************************************************)
LimbBits == 13
LimbBase == 8192

RECURSIVE BNorm(_)
BNorm(x) ==
    IF x = <<>> THEN <<>>
    ELSE IF x[Len(x)] = 0 THEN BNorm(SubSeq(x, 1, Len(x) - 1))
    ELSE x

RECURSIVE BFromNat(_)
BFromNat(n) ==
    IF n = 0 THEN <<>> ELSE <<n % LimbBase>> \o BFromNat(n \div LimbBase)

RECURSIVE BToNat(_)
BToNat(x) ==
    IF x = <<>> THEN 0 ELSE x[1] + LimbBase * BToNat(Tail(x))

RECURSIVE BAddC(_, _, _)
BAddC(x, y, carry) ==
    IF x = <<>> /\ y = <<>>
    THEN (IF carry = 0 THEN <<>> ELSE <<carry>>)
    ELSE LET a == IF x = <<>> THEN 0 ELSE x[1]
             b == IF y = <<>> THEN 0 ELSE y[1]
             t == a + b + carry
         IN  <<t % LimbBase>>
             \o BAddC(IF x = <<>> THEN <<>> ELSE Tail(x),
                      IF y = <<>> THEN <<>> ELSE Tail(y),
                      t \div LimbBase)

BAdd(x, y) == BAddC(x, y, 0)

RECURSIVE BSubC(_, _, _)
BSubC(x, y, borrow) ==
    IF x = <<>> THEN <<>>
    ELSE LET b == IF y = <<>> THEN 0 ELSE y[1]
             t == x[1] - b - borrow
         IN  <<IF t < 0 THEN t + LimbBase ELSE t>>
             \o BSubC(Tail(x),
                      IF y = <<>> THEN <<>> ELSE Tail(y),
                      IF t < 0 THEN 1 ELSE 0)

\* x - y for x >= y
BSub(x, y) == BNorm(BSubC(x, y, 0))

RECURSIVE BCmpAt(_, _, _)
BCmpAt(x, y, i) ==
    IF i = 0 THEN 0
    ELSE IF x[i] > y[i] THEN 1
    ELSE IF x[i] < y[i] THEN -1
    ELSE BCmpAt(x, y, i - 1)

\* -1, 0 or 1 as x < y, x = y or x > y
BCmp(x, y) ==
    IF Len(x) > Len(y) THEN 1
    ELSE IF Len(x) < Len(y) THEN -1
    ELSE BCmpAt(x, y, Len(x))

RECURSIVE BMulC(_, _, _)
BMulC(x, c, carry) ==
    IF x = <<>> THEN BFromNat(carry)
    ELSE LET t == x[1] * c + carry
         IN  <<t % LimbBase>> \o BMulC(Tail(x), c, t \div LimbBase)

\* x * c for a small natural c
BMulSmall(x, c) == BNorm(BMulC(x, c, 0))

RECURSIVE BMul(_, _)
BMul(x, y) ==
    IF x = <<>> \/ y = <<>> THEN <<>>
    ELSE LET rest == BMul(Tail(x), y)
         IN  BAdd(BMulSmall(y, x[1]),
                  IF rest = <<>> THEN <<>> ELSE <<0>> \o rest)

RECURSIVE BDivC(_, _)
BDivC(x, c) ==
    IF x = <<>> THEN [q |-> <<>>, r |-> 0]
    ELSE LET h == BDivC(Tail(x), c)
             t == x[1] + LimbBase * h.r
         IN  [q |-> <<t \div c>> \o h.q, r |-> t % c]

\* floor(x / c) for a small positive c
BDivSmall(x, c) == BNorm(BDivC(x, c).q)

Zeros(k) == [i \in 1..k |-> 0]

\* x * 2^s
BShl(x, s) ==
    IF x = <<>> THEN <<>>
    ELSE Zeros(s \div LimbBits) \o BMulSmall(x, 2 ^ (s % LimbBits))

\* floor(x / 2^s)
BShr(x, s) ==
    LET k == s \div LimbBits
    IN  IF Len(x) <= k THEN <<>>
        ELSE BDivSmall(SubSeq(x, k + 1, Len(x)), 2 ^ (s % LimbBits))

RECURSIVE NatBitLen(_)
NatBitLen(n) == IF n = 0 THEN 0 ELSE 1 + NatBitLen(n \div 2)

BitLen(x) ==
    IF x = <<>> THEN 0
    ELSE LimbBits * (Len(x) - 1) + NatBitLen(x[Len(x)])

BOne == <<1>>

(***************************************************************************)
(* f64: [neg, sig, exp] is (-1)^neg * sig * 2^exp with 2^52 <= sig < 2^53, *)
(* or F64Zero.  Equality of records is equality of f64 values.             *)
(***************************************************************************)
SigBits == 53

F64Zero == [neg |-> FALSE, sig |-> <<>>, exp |-> 0]

\* The f64 nearest to (-1)^neg * m * 2^e, ties to even.
RoundToF64(neg, m, e) ==
    LET len == BitLen(m)
    IN  IF len = 0 THEN F64Zero
        ELSE IF len <= SigBits
        THEN [neg |-> neg, sig |-> BShl(m, SigBits - len), exp |-> e - (SigBits - len)]
        ELSE LET s    == len - SigBits
                 q    == BShr(m, s)
                 r    == BSub(m, BShl(q, s))
                 half == BShl(BOne, s - 1)
                 c    == BCmp(r, half)
                 up   == c = 1 \/ (c = 0 /\ q[1] % 2 = 1)
                 q2   == IF up THEN BAdd(q, BOne) ELSE q
             IN  IF BitLen(q2) > SigBits
                 THEN [neg |-> neg, sig |-> BShr(q2, 1), exp |-> e + s + 1]
                 ELSE [neg |-> neg, sig |-> q2, exp |-> e + s]

\* `n as f64` for an unsigned integer n (exact below 2^53)
F64FromInt(n) == RoundToF64(FALSE, BFromNat(n), 0)

F64One == F64FromInt(1)

F64Neg(x) == IF x = F64Zero THEN x ELSE [x EXCEPT !.neg = ~x.neg]

\* x + y
F64Add(x, y) ==
    IF x = F64Zero THEN y
    ELSE IF y = F64Zero THEN x
    ELSE LET e  == IF x.exp < y.exp THEN x.exp ELSE y.exp
             mx == BShl(x.sig, x.exp - e)
             my == BShl(y.sig, y.exp - e)
             c  == BCmp(mx, my)
         IN  IF x.neg = y.neg THEN RoundToF64(x.neg, BAdd(mx, my), e)
             ELSE IF c = 0 THEN F64Zero
             ELSE IF c = 1 THEN RoundToF64(x.neg, BSub(mx, my), e)
             ELSE RoundToF64(y.neg, BSub(my, mx), e)

F64Sub(x, y) == F64Add(x, F64Neg(y))

\* x * y
F64Mul(x, y) ==
    IF x = F64Zero \/ y = F64Zero THEN F64Zero
    ELSE RoundToF64(x.neg # y.neg, BMul(x.sig, y.sig), x.exp + y.exp)

\* Binary long division: the quotient q and remainder r after k more quotient
\* bits of rem / d, starting from quotient q0, for rem < d.  The k bits are
\* produced half by half; once the remainder is zero the rest are zero bits.
RECURSIVE DivBits(_, _, _, _)
DivBits(rem, d, q0, k) ==
    IF k = 0 THEN [q |-> q0, r |-> rem]
    ELSE IF rem = <<>> THEN [q |-> BShl(q0, k), r |-> <<>>]
    ELSE IF k = 1
    THEN LET r2  == BMulSmall(rem, 2)
             bit == BCmp(r2, d) >= 0
         IN  [q |-> BAdd(BMulSmall(q0, 2), IF bit THEN BOne ELSE <<>>),
              r |-> IF bit THEN BSub(r2, d) ELSE r2]
    ELSE LET p == DivBits(rem, d, q0, k \div 2)
         IN  DivBits(p.r, d, p.q, k - k \div 2)

\* x / y for y # 0: the quotient of the significands to 56 fractional bits,
\* with a sticky bit for the remainder, then rounded.
F64Div(x, y) ==
    IF x = F64Zero THEN F64Zero
    ELSE LET first == BCmp(x.sig, y.sig) >= 0
             d     == DivBits(IF first THEN BSub(x.sig, y.sig) ELSE x.sig, y.sig,
                              IF first THEN BOne ELSE <<>>, SigBits + 3)
             m     == BAdd(BMulSmall(d.q, 2), IF d.r = <<>> THEN <<>> ELSE BOne)
         IN  RoundToF64(x.neg # y.neg, m, x.exp - y.exp - (SigBits + 4))

\* Mutant of F64ToU8: rounds to the nearest integer instead of truncating
F64ToU8_nearest(x) ==
    LET y == F64Add(x, RoundToF64(FALSE, BOne, -1))
    IN  IF y = F64Zero \/ y.neg THEN 0
        ELSE IF y.exp + SigBits > 8 THEN 255
        ELSE BToNat(BShr(y.sig, 0 - y.exp))

\* `x as u8`: truncation toward zero, saturating at 0 and 255
F64ToU8(x) ==
    IF x = F64Zero \/ x.neg THEN 0
    ELSE IF x.exp + SigBits > 8 THEN 255
    ELSE BToNat(BShr(x.sig, 0 - x.exp))

\* The f64 next below a positive x
F64Pred(x) ==
    LET m == BSub(x.sig, BOne)
    IN  IF BitLen(m) < SigBits
        THEN [x EXCEPT !.sig = BAdd(BMulSmall(m, 2), BOne), !.exp = x.exp - 1]
        ELSE [x EXCEPT !.sig = m]

\* The f64 next above a positive x
F64Succ(x) == RoundToF64(x.neg, BAdd(x.sig, BOne), x.exp)

(***************************************************************************)
(* Results of operations that can panic.                                   *)
(***************************************************************************)
Ok(v) == [ok |-> TRUE, val |-> v]
Panic(m) == [ok |-> FALSE, msg |-> m]

(***************************************************************************)
(* struct RGB and its operations.  A string is a sequence of characters.   *)
(***************************************************************************)
U8 == 0..255

RGB_new(r, g, b) == [r |-> r, g |-> g, b |-> b]

RGB_default == RGB_new(0, 0, 0)

DigitChars == <<"0", "1", "2", "3", "4", "5", "6", "7", "8", "9">>
LowerChars == <<"a", "b", "c", "d", "e", "f">>
UpperChars == <<"A", "B", "C", "D", "E", "F">>

Range(f) == {f[i] : i \in DOMAIN f}

IndexOf(c, chars) == CHOOSE i \in DOMAIN chars : chars[i] = c

\* Mutant of is_match: the pattern anchored at both ends, "^#[A-Fa-f0-9]{6}$"
is_match_whole(hex_string) ==
    /\ Len(hex_string) = 7
    /\ hex_string[1] = "#"
    /\ \A i \in 2..7 :
          hex_string[i] \in Range(UpperChars) \cup Range(LowerChars) \cup Range(DigitChars)

\* Regex "^#[A-Fa-f0-9]{6}": an anchored prefix match
is_match(hex_string) ==
    /\ Len(hex_string) >= 7
    /\ hex_string[1] = "#"
    /\ \A i \in 2..7 :
          hex_string[i] \in Range(UpperChars) \cup Range(LowerChars) \cup Range(DigitChars)

\* char::to_digit(16): the digit's value, or -1 for a character that is none
to_digit(c) ==
    IF c \in Range(DigitChars) THEN IndexOf(c, DigitChars) - 1
    ELSE IF c \in Range(LowerChars) THEN IndexOf(c, LowerChars) + 9
    ELSE IF c \in Range(UpperChars) THEN IndexOf(c, UpperChars) + 9
    ELSE -1

\* u8::from_str_radix(src, 16) of a two-character slice; Err for an invalid
\* digit (a two-digit value always fits a u8)
RECURSIVE from_str_radix(_, _)
from_str_radix(src, acc) ==
    IF src = <<>> THEN Ok(acc)
    ELSE IF to_digit(Head(src)) < 0 THEN Panic("invalid digit found in string")
    ELSE from_str_radix(Tail(src), acc * 16 + to_digit(Head(src)))

from_hex_string(hex_string) ==
    IF ~is_match(hex_string) THEN Panic("invalid hex string")
    ELSE LET r == from_str_radix(SubSeq(hex_string, 2, 3), 0)
             g == from_str_radix(SubSeq(hex_string, 4, 5), 0)
             b == from_str_radix(SubSeq(hex_string, 6, 7), 0)
         IN  IF ~r.ok THEN r
             ELSE IF ~g.ok THEN g
             ELSE IF ~b.ok THEN b
             ELSE Ok(RGB_new(r.val, g.val, b.val))

\* Mutant of LowerHex: "{:02X}", uppercase digits
UpperHex(v) ==
    LET digits == DigitChars \o UpperChars
    IN  <<digits[(v \div 16) + 1], digits[(v % 16) + 1]>>

\* "{:02x}": two lowercase hexadecimal digits
LowerHex(v) ==
    LET digits == DigitChars \o LowerChars
    IN  <<digits[(v \div 16) + 1], digits[(v % 16) + 1]>>

\* impl fmt::Display for RGB
fmt(self) == <<"#">> \o LowerHex(self.r) \o LowerHex(self.g) \o LowerHex(self.b)

\* Mutant of to_tuple: the channels in the order blue, green, red
to_tuple_bgr(self) == <<self.b, self.g, self.r>>

to_tuple(self) == <<self.r, self.g, self.b>>

\* Mutant of add: saturating addition
add_saturating(self, other, checks) ==
    Ok(RGB_new(IF self.r + other.r > 255 THEN 255 ELSE self.r + other.r,
               IF self.g + other.g > 255 THEN 255 ELSE self.g + other.g,
               IF self.b + other.b > 255 THEN 255 ELSE self.b + other.b))

\* impl Add<RGB> for RGB.  A u8 sum above 255 panics when the build has
\* overflow checks (the debug profile) and wraps otherwise (release).
add(self, other, checks) ==
    LET r == self.r + other.r
        g == self.g + other.g
        b == self.b + other.b
    IN  IF checks /\ (r > 255 \/ g > 255 \/ b > 255)
        THEN Panic("attempt to add with overflow")
        ELSE Ok(RGB_new(r % 256, g % 256, b % 256))

\* Mutant of mul: the product rounded up instead of truncated
mul_ceil(self, rhs) ==
    LET up(c) == LET p == F64Mul(F64FromInt(c), rhs)
                     t == F64ToU8(p)
                 IN  IF t < 255 /\ F64FromInt(t) # p /\ ~p.neg THEN t + 1 ELSE t
    IN  RGB_new(up(self.r), up(self.g), up(self.b))

\* impl Mul<f64> for RGB
mul(self, rhs) ==
    RGB_new(F64ToU8(F64Mul(F64FromInt(self.r), rhs)),
            F64ToU8(F64Mul(F64FromInt(self.g), rhs)),
            F64ToU8(F64Mul(F64FromInt(self.b), rhs)))

\* Mutant of blend: the weights applied the other way round
blend_swapped(self, other, alpha, beta, checks) ==
    IF F64Add(alpha, beta) # F64One
    THEN Panic("assertion failed")
    ELSE add(mul(self, beta), mul(other, alpha), checks)

\* Mutant of blend: no assertion on the weights
blend_unchecked(self, other, alpha, beta, checks) ==
    add(mul(self, alpha), mul(other, beta), checks)

\* RGB::blend.  The assertion macro is spelt asser_eq! in the source; it is
\* modelled as the assert_eq! it stands for.
blend(self, other, alpha, beta, checks) ==
    IF F64Add(alpha, beta) # F64One
    THEN Panic("assertion failed")
    ELSE add(mul(self, alpha), mul(other, beta), checks)

(***************************************************************************)
(* struct Gradient.                                                        *)
(***************************************************************************)
Width == 600

\* Mutant of vec_default: one element too many
vec_default_extra(steps) == [i \in 1..(steps + 1) |-> RGB_default]

\* vec![RGB::default(); steps]
vec_default(steps) == [i \in 1..steps |-> RGB_default]

\* The weights of one iteration of generate_gradient
weight_a(idx, steps) == F64Div(F64FromInt(idx), F64FromInt(steps))
\* Mutant of weight_b: the weight of end reaches zero at the last index
weight_b_short(idx, steps) == F64Div(F64FromInt(steps - idx - 1), F64FromInt(steps))

weight_b(idx, steps) == F64Div(F64FromInt(steps - idx), F64FromInt(steps))

\* usize -> u32 of self.steps.try_into(): fails above u32::MAX = 65536^2 - 1
try_into_u32(n) ==
    IF n \div 65536 <= 65535 THEN Ok(n) ELSE Panic("out of range integral type conversion attempted")

\* ImageBuffer::new(width, height): rows of zeroed pixels
ImageBuffer_new(width, height) ==
    [row \in 1..height |-> [x \in 1..width |-> <<0, 0, 0>>]]

\* One row of enumerate_rows_mut: every pixel of the row gets the sample's tuple
fill_row(row, colour) == [x \in DOMAIN row |-> to_tuple(colour)]

(***************************************************************************)
(* State.                                                                  *)
(***************************************************************************)
VARIABLES
    overflow_checks,  \* build profile: TRUE when u8 overflow panics (debug)
    pc,               \* position of the program
    panic,            \* message of the panic that ended the run, or ""
    start, end, steps, gradient,   \* the fields of Gradient
    idx,              \* iterations of generate_gradient done
    img_buf,          \* the image buffer of generate_image, rows of pixels
    row_idx,          \* rows of the image filled
    hex_string,       \* argument of from_hex_string
    rgb,              \* a colour parsed or to be formatted: <<>> or <<c>>
    shown,            \* output of Display
    reparsed,         \* colour parsed back from shown: <<>> or <<c>>
    self, other, alpha, beta,      \* arguments of add, mul and blend
    result            \* what add, mul or blend returned

vars == <<overflow_checks, pc, panic, start, end, steps, gradient, idx, img_buf,
          row_idx, hex_string, rgb, shown, reparsed, self, other, alpha, beta, result>>

gradient_vars == <<start, end, steps, gradient, idx, img_buf, row_idx>>
hex_vars == <<hex_string, rgb, shown, reparsed>>
colour_vars == <<self, other, alpha, beta, result>>

(***************************************************************************)
(* Inputs.                                                                 *)
(***************************************************************************)
RGBInputs ==
    { RGB_new(0, 0, 0), RGB_new(255, 255, 255), RGB_new(90, 170, 180),
      RGB_new(49, 3, 1), RGB_new(200, 100, 56), RGB_new(255, 0, 128) }

EndpointInputs ==
    { RGB_new(0, 0, 0), RGB_new(255, 255, 255), RGB_new(90, 170, 180),
      RGB_new(49, 3, 255) }

Ratio(p, q) == F64Div(F64FromInt(p), F64FromInt(q))

\* 2^-53, half the distance from 1.0 to the f64 below it
F64Tiny == RoundToF64(FALSE, BOne, 0 - SigBits)

AlphaInputs ==
    { F64Zero, F64One, F64Tiny, F64Pred(F64One),
      F64Pred(Ratio(1, 3)), F64Succ(Ratio(1, 3)), F64Pred(Ratio(1, 90)) }
    \cup { Ratio(pq[1], pq[2]) :
             pq \in { <<1, 2>>, <<1, 3>>, <<2, 3>>, <<1, 4>>, <<3, 4>>, <<1, 10>>,
                      <<3, 10>>, <<7, 10>>, <<1, 49>>, <<1, 90>>, <<1, 255>>,
                      <<254, 255>>, <<3, 2>> } }

BetaInputs(a) ==
    { F64Sub(F64One, a), F64One, Ratio(1, 2), F64Neg(Ratio(1, 2)) }

HexChars == Range(DigitChars) \cup Range(LowerChars) \cup Range(UpperChars)

Alphabet == {"#", "9", "e", "E", "g"}

\* Every string of length n over Alphabet
Strings(n) == [1..n -> Alphabet]

\* Every pair of hexadecimal digits, in each channel
HexPairInputs == { <<"#", x, y, y, x, x, x>> : x \in HexChars, y \in HexChars }

FormatInputs ==
    RGBInputs \cup { RGB_new(v, 255 - v, (v * 7) % 256) : v \in U8 }

(***************************************************************************)
(* Gradient::new and generate_image.                                       *)
(***************************************************************************)
InitGradient ==
    /\ overflow_checks \in BOOLEAN
    /\ pc = "generate_gradient"
    /\ panic = ""
    /\ start \in EndpointInputs
    /\ end \in EndpointInputs
    /\ steps \in 0..MaxSteps
    /\ gradient = vec_default(steps)
    /\ idx = 0
    /\ img_buf = <<>>
    /\ row_idx = 0
    /\ hex_string = <<>> /\ rgb = <<>> /\ shown = <<>> /\ reparsed = <<>>
    /\ self = RGB_default /\ other = RGB_default
    /\ alpha = F64Zero /\ beta = F64Zero /\ result = Ok(RGB_default)

\* One iteration of the loop of generate_gradient
GenerateStep ==
    /\ pc = "generate_gradient"
    /\ idx < Len(gradient)
    /\ LET a == weight_a(idx, steps)
           b == weight_b(idx, steps)
           c == blend(start, end, a, b, overflow_checks)
       IN  IF c.ok
           THEN /\ gradient' = [gradient EXCEPT ![idx + 1] = c.val]
                /\ idx' = idx + 1
                /\ UNCHANGED <<pc, panic>>
           ELSE /\ pc' = "panicked"
                /\ panic' = c.msg
                /\ UNCHANGED <<gradient, idx>>
    /\ UNCHANGED <<overflow_checks, start, end, steps, img_buf, row_idx>>
    /\ UNCHANGED <<hex_vars, colour_vars>>

\* generate_gradient returns and Gradient::new builds the struct
GradientNew ==
    /\ pc = "generate_gradient"
    /\ idx = Len(gradient)
    /\ pc' = "constructed"
    /\ UNCHANGED <<overflow_checks, panic, gradient_vars, hex_vars, colour_vars>>

\* generate_image up to its loop: the buffer is allocated
ImageNew ==
    /\ pc = "constructed"
    /\ LET height == try_into_u32(steps)
       IN  IF height.ok
           THEN /\ img_buf' = ImageBuffer_new(Width, height.val)
                /\ pc' = "render"
           ELSE /\ pc' = "error"
                /\ UNCHANGED img_buf
    /\ row_idx' = 0
    /\ UNCHANGED <<overflow_checks, panic, start, end, steps, gradient, idx>>
    /\ UNCHANGED <<hex_vars, colour_vars>>

\* One row of the loop of generate_image
RenderRow ==
    /\ pc = "render"
    /\ row_idx < Len(img_buf)
    /\ img_buf' = [img_buf EXCEPT
                     ![row_idx + 1] = fill_row(img_buf[row_idx + 1], gradient[row_idx + 1])]
    /\ row_idx' = row_idx + 1
    /\ UNCHANGED <<overflow_checks, pc, panic, start, end, steps, gradient, idx>>
    /\ UNCHANGED <<hex_vars, colour_vars>>

\* img_buf.save(filename)?: the encoder and the file system may fail
Save ==
    /\ pc = "render"
    /\ row_idx = Len(img_buf)
    /\ \E written \in BOOLEAN : pc' = IF written THEN "saved" ELSE "error"
    /\ UNCHANGED <<overflow_checks, panic, gradient_vars, hex_vars, colour_vars>>

NextGradient == GenerateStep \/ GradientNew \/ ImageNew \/ RenderRow \/ Save

SpecGradient == InitGradient /\ [][NextGradient]_vars

(***************************************************************************)
(* from_hex_string and Display: a string is parsed and the colour shown,   *)
(* or a colour is shown and the output parsed back.                        *)
(***************************************************************************)
InitHex ==
    /\ overflow_checks = FALSE
    /\ panic = ""
    /\ \/ /\ pc = "parse"
          /\ \/ \E n \in 0..MaxLen : hex_string \in Strings(n)
             \/ hex_string \in HexPairInputs
          /\ rgb = <<>>
       \/ /\ pc = "format"
          /\ hex_string = <<>>
          /\ rgb \in {<<c>> : c \in FormatInputs}
    /\ shown = <<>>
    /\ reparsed = <<>>
    /\ start = RGB_default /\ end = RGB_default /\ steps = 0 /\ gradient = <<>>
    /\ idx = 0 /\ img_buf = <<>> /\ row_idx = 0
    /\ self = RGB_default /\ other = RGB_default
    /\ alpha = F64Zero /\ beta = F64Zero /\ result = Ok(RGB_default)

\* RGB::from_hex_string(hex_string)
FromHexString ==
    /\ pc = "parse"
    /\ LET c == from_hex_string(hex_string)
       IN  IF c.ok
           THEN /\ rgb' = <<c.val>>
                /\ pc' = "parsed"
                /\ UNCHANGED panic
           ELSE /\ pc' = "panicked"
                /\ panic' = c.msg
                /\ UNCHANGED rgb
    /\ UNCHANGED <<overflow_checks, hex_string, shown, reparsed>>
    /\ UNCHANGED <<gradient_vars, colour_vars>>

\* format!("{}", rgb)
Display ==
    /\ pc \in {"parsed", "format"}
    /\ shown' = fmt(rgb[1])
    /\ pc' = IF pc = "parsed" THEN "shown" ELSE "formatted"
    /\ UNCHANGED <<overflow_checks, panic, hex_string, rgb, reparsed>>
    /\ UNCHANGED <<gradient_vars, colour_vars>>

\* RGB::from_hex_string(shown)
Reparse ==
    /\ pc = "formatted"
    /\ LET c == from_hex_string(shown)
       IN  IF c.ok
           THEN /\ reparsed' = <<c.val>>
                /\ pc' = "reparsed"
                /\ UNCHANGED panic
           ELSE /\ pc' = "panicked"
                /\ panic' = c.msg
                /\ UNCHANGED reparsed
    /\ UNCHANGED <<overflow_checks, hex_string, rgb, shown>>
    /\ UNCHANGED <<gradient_vars, colour_vars>>

NextHex == FromHexString \/ Display \/ Reparse

SpecHex == InitHex /\ [][NextHex]_vars

(***************************************************************************)
(* The arithmetic of RGB: one call of add, mul or blend.                   *)
(***************************************************************************)
InitColour ==
    /\ overflow_checks \in BOOLEAN
    /\ pc = "call"
    /\ panic = ""
    /\ self \in RGBInputs
    /\ other \in RGBInputs
    /\ alpha \in AlphaInputs
    /\ beta \in BetaInputs(alpha)
    /\ result = Ok(RGB_default)
    /\ start = RGB_default /\ end = RGB_default /\ steps = 0 /\ gradient = <<>>
    /\ idx = 0 /\ img_buf = <<>> /\ row_idx = 0
    /\ hex_string = <<>> /\ rgb = <<>> /\ shown = <<>> /\ reparsed = <<>>

Returned(value, at) ==
    /\ result' = value
    /\ pc' = at
    /\ panic' = IF value.ok THEN "" ELSE value.msg
    /\ UNCHANGED <<overflow_checks, self, other, alpha, beta>>
    /\ UNCHANGED <<gradient_vars, hex_vars>>

\* self + other
Add ==
    /\ pc = "call"
    /\ Returned(add(self, other, overflow_checks), "added")

\* self * alpha
Mul ==
    /\ pc = "call"
    /\ Returned(Ok(mul(self, alpha)), "scaled")

\* self.blend(other, alpha, beta)
Blend ==
    /\ pc = "call"
    /\ Returned(blend(self, other, alpha, beta, overflow_checks), "blended")

NextColour == Add \/ Mul \/ Blend

SpecColour == InitColour /\ [][NextColour]_vars

(***************************************************************************)
(* Properties of Gradient, checked under SpecGradient.                     *)
(***************************************************************************)
Channels == {"r", "g", "b"}

Black == RGB_new(0, 0, 0)
White == RGB_new(255, 255, 255)
Grey(v) == RGB_new(v, v, v)

Min(x, y) == IF x < y THEN x ELSE y
Max(x, y) == IF x < y THEN y ELSE x

\* trunc(c * k / n) in f64: the channel c scaled by the weight k / n
ScaledTrunc(c, k, n) ==
    F64ToU8(F64Mul(F64FromInt(c), F64Div(F64FromInt(k), F64FromInt(n))))

\* The samples to look at in a state: the one the last iteration wrote and,
\* once the gradient is returned, all of them.
Produced ==
    IF pc = "constructed" THEN 1..idx
    ELSE IF pc = "generate_gradient" /\ idx > 0 THEN {idx}
    ELSE {}

\* C1: generate_gradient returns exactly `steps` colours and the Gradient
\* holds a sample sequence as long as its step count; for steps = 0 the
\* sequence is empty and no blend is performed.
C1_LengthIsSteps ==
    /\ Len(gradient) = steps
    /\ pc \in {"constructed", "render", "saved", "error"} =>
          /\ idx = steps
          /\ \A i \in 1..steps : \A ch \in Channels : gradient[i][ch] \in U8
    /\ steps = 0 => gradient = <<>> /\ idx = 0 /\ pc # "panicked"

C1_Witness ==
    pc = "constructed" /\ steps = 3 /\ Len(gradient) = 3 /\ idx = 3

C5_WeightsSumToOne ==
    /\ panic # "assertion failed"
    /\ pc = "generate_gradient" /\ idx < steps =>
          F64Add(weight_a(idx, steps), weight_b(idx, steps)) = F64One

C5_Witness ==
    pc = "generate_gradient" /\ steps = 3 /\ idx = 2 /\ panic = ""

\* C10: on the gradient path the two scaled channels never add up to more
\* than 255, so the u8 addition never overflows, and every sample channel
\* lies between min(start, end) - 1 and max(start, end).
C10_NoOverflow ==
    /\ panic # "attempt to add with overflow"
    /\ \A i \in Produced : \A ch \in Channels :
          /\ ScaledTrunc(start[ch], i - 1, steps)
             + ScaledTrunc(end[ch], steps - (i - 1), steps) <= 255
          /\ gradient[i][ch] >= Min(start[ch], end[ch]) - 1
          /\ gradient[i][ch] <= Max(start[ch], end[ch])

C10_Witness ==
    /\ pc = "constructed" /\ steps = 10 /\ start = White /\ end = White
    /\ gradient[1] = Grey(255) /\ gradient[8] = Grey(254)

\* C6: generate_image builds an image 600 wide and `steps` high whose row i
\* carries in every pixel the tuple of sample i, and rendering leaves the
\* samples as they were.
ImageRowsFilled ==
    pc \in {"render", "saved"} =>
       /\ Len(img_buf) = steps
       /\ \A row \in 1..Len(img_buf) : Len(img_buf[row]) = 600
       /\ \A row \in 1..row_idx : \A x \in 1..600 :
             img_buf[row][x] = <<gradient[row].r, gradient[row].g, gradient[row].b>>
       /\ pc = "saved" => row_idx = steps

C6_ImageRows ==
    /\ []ImageRowsFilled
    /\ [][(pc \in {"constructed", "render"}) => (gradient' = gradient)]_vars

C6_Witness ==
    /\ pc = "saved" /\ steps = 2 /\ start = RGB_new(90, 170, 180) /\ end = Black
    /\ Len(img_buf) = 2
    /\ img_buf[1][1] = <<0, 0, 0>> /\ img_buf[2][600] = <<45, 85, 90>>

(***************************************************************************)
(* Properties of from_hex_string and Display, checked under SpecHex.       *)
(***************************************************************************)
HexDigits16 == <<"0", "1", "2", "3", "4", "5", "6", "7",
                 "8", "9", "a", "b", "c", "d", "e", "f">>

Lowercase(str) ==
    [i \in DOMAIN str |->
        IF str[i] \in Range(UpperChars)
        THEN LowerChars[IndexOf(str[i], UpperChars)]
        ELSE str[i]]

\* '#' followed by six hexadecimal digits, then anything
HasHexPrefix(str) ==
    /\ Len(str) >= 7
    /\ str[1] = "#"
    /\ \A i \in 2..7 : \E v \in 1..16 : Lowercase(<<str[i]>>) = <<HexDigits16[v]>>

\* The value of the two hexadecimal digits at positions i and i + 1
PairValue(str, i) ==
    LET low == Lowercase(str)
    IN  16 * ((CHOOSE v \in 1..16 : HexDigits16[v] = low[i]) - 1)
        + (CHOOSE v \in 1..16 : HexDigits16[v] = low[i + 1]) - 1

\* C3: parsing '#' and six hex digits and formatting the colour gives the
\* string lowercased; formatting a colour and parsing the output gives the
\* colour back (so parsing a formatted colour never panics).
C3_RoundTrip ==
    /\ pc = "shown" /\ Len(hex_string) = 7 => shown = Lowercase(hex_string)
    /\ pc = "reparsed" => reparsed = rgb
    /\ pc = "panicked" => shown = <<>>

C3_Witness ==
    /\ pc = "shown"
    /\ hex_string = <<"#", "A", "b", "b", "A", "A", "A">>
    /\ shown = <<"#", "a", "b", "b", "a", "a", "a">>

\* C7: from_hex_string returns a colour exactly for the inputs that start
\* with '#' and six hex digits; the channels are the digit pairs at 1-2, 3-4,
\* 5-6 and what follows is ignored; any other input panics with "invalid hex
\* string" and no colour, black or other, is returned.
C7_ParseOrPanic ==
    /\ pc \in {"parsed", "shown"} =>
          /\ HasHexPrefix(hex_string)
          /\ rgb = <<RGB_new(PairValue(hex_string, 2), PairValue(hex_string, 4),
                             PairValue(hex_string, 6))>>
    /\ pc = "panicked" /\ shown = <<>> =>
          /\ ~HasHexPrefix(hex_string)
          /\ panic = "invalid hex string"
          /\ rgb = <<>>

C7_Witness ==
    /\ pc = "parsed"
    /\ hex_string = <<"#", "9", "e", "E", "9", "e", "E", "g">>
    /\ rgb = <<RGB_new(158, 233, 238)>>

(***************************************************************************)
(* Properties of add and blend, checked under SpecColour.                  *)
(***************************************************************************)
\* 0 <= x <= 1
InUnitInterval(x) ==
    x = F64Zero \/ x = F64One \/ (~x.neg /\ x.exp + SigBits <= 0)

\* C4: blending a colour with itself with weights a and 1 - a, a in [0, 1],
\* returns each channel unchanged or one less, never greater.
C4_SelfBlend ==
    pc = "blended" /\ self = other /\ InUnitInterval(alpha)
       /\ beta = F64Sub(F64One, alpha) =>
          /\ result.ok
          /\ \A ch \in Channels :
                result.val[ch] = self[ch] \/ result.val[ch] = self[ch] - 1

C4_Witness ==
    /\ pc = "blended" /\ self = RGB_new(49, 3, 1) /\ other = self
    /\ alpha = Ratio(1, 49) /\ beta = F64Sub(F64One, alpha)
    /\ result = Ok(RGB_new(48, 2, 0))

\* C8: blend fails with the assertion, returning no colour, whenever
\* alpha + beta is not 1.0, and returns self * alpha + other * beta whenever
\* it is.
C8_BlendChecksWeights ==
    pc = "blended" =>
       IF F64Add(alpha, beta) # F64One
       THEN ~result.ok /\ result.msg = "assertion failed" /\ panic = "assertion failed"
       ELSE /\ result.ok
            /\ \A ch \in Channels :
                  result.val[ch] = F64ToU8(F64Mul(F64FromInt(self[ch]), alpha))
                                   + F64ToU8(F64Mul(F64FromInt(other[ch]), beta))
            /\ alpha = Ratio(1, 2) /\ beta = Ratio(1, 2) /\ self = White /\ other = Black
                  => result.val = Grey(127)
            /\ alpha = Ratio(3, 2) /\ self = RGB_new(200, 100, 56) /\ other = White
                  /\ beta = F64Neg(Ratio(1, 2))
                  => result.val = RGB_new(255, 150, 84)

C8_Witness ==
    /\ pc = "blended" /\ alpha = Ratio(1, 2) /\ beta = F64One
    /\ ~result.ok /\ panic = "assertion failed"

\* C9 as claimed: the sum of two colours is returned with every channel
\* reduced modulo 256, never an abort.
C9_AddAlwaysWraps ==
    pc = "added" =>
       /\ result.ok
       /\ \A ch \in Channels : result.val[ch] = (self[ch] + other[ch]) % 256

\* C9 as amended: a sum of at most 255 in every channel is returned
\* unchanged; when a channel sum exceeds 255 the addition never saturates: it
\* wraps that channel modulo 256, each channel on its own, in a build
\* without overflow checks, and panics in a build with them.
C9_AddWrapsOrPanics ==
    pc = "added" =>
       IF overflow_checks /\ \E ch \in Channels : self[ch] + other[ch] > 255
       THEN ~result.ok /\ result.msg = "attempt to add with overflow"
       ELSE /\ result.ok
            /\ \A ch \in Channels :
                  /\ self[ch] + other[ch] <= 255 => result.val[ch] = self[ch] + other[ch]
                  /\ self[ch] + other[ch] > 255 =>
                        result.val[ch] = self[ch] + other[ch] - 256

C9_Witness ==
    /\ pc = "added" /\ ~overflow_checks
    /\ self = RGB_new(200, 100, 56) /\ other = RGB_new(90, 170, 180)
    /\ result = Ok(RGB_new(34, 14, 236))

====
